---- MODULE Spec2Model ----
(***************************************************************************)
(* The interview page of Rehearse (frontend/src/app/interview/page.tsx):   *)
(* the turn orchestration of one mounted InterviewPage component.          *)
(*                                                                         *)
(* React state is one variable per useState cell, refs are one variable    *)
(* per useRef cell.  A callback reads the state of the render that created *)
(* it, so every suspended continuation, timer and recognition handler      *)
(* carries the values its closure captured (the fields named c...).  A     *)
(* handler, the re-render it causes and the effects of that render are one *)
(* step (React batches the updates of a handler and runs the effects       *)
(* before the next event is handled).                                      *)
(***************************************************************************)
EXTENDS Naturals, Sequences, FiniteSets, TLC

\* ------------------------------------------------------------- bounds
MaxRec == 1          \* SpeechRecognition objects that can still deliver an event
MaxSubmits == 1      \* answers handed to processNextTurn
MaxResults == 2      \* results in the event.results of one wide event

\* ------------------------------------------------------------- values
States == {"DOOR_OPENING", "AI_SPEAKING", "USER_LISTENING", "THINKING", "DOOR_CLOSING"}
Phases == {"GREETING", "MAIN", "FOLLOWUP"}
ActionKinds == {"ASK_MAIN", "ASK_FOLLOWUP", "REPEAT_QUESTION", "END"}
GreetingText == "G"
\* the text of the n-th response of the decision service
RespTexts == <<"Q1", "Q2", "Q3", "Q4", "Q5">>
Words == {"", "a"}
ErrorKinds == {"no-speech", "audio-capture", "network"}
RepeatPrefix == "Let me repeat the question. "
Callers == {"door", "pnt", "rep"}

Turn(t, ai, user) == [type |-> t, aiText |-> ai, userTranscript |-> user]

\* event.results of a SpeechRecognitionEvent: one result, final or interim
Result(f, w) == [isFinal |-> f, transcript |-> w]
ResultEvents == {<<Result(f, w)>> : f \in BOOLEAN, w \in Words}

\* the bodies the decision service answers the n-th request with; the counters
\* of a response differ from each other and, for the actions that must not
\* apply them, from the ones a question sets
Responses(n) ==
    {[action |-> "ASK_MAIN", aiText |-> RespTexts[n],
      mainQuestionIndex |-> 1, followupCount |-> 0],
     [action |-> "ASK_FOLLOWUP", aiText |-> RespTexts[n],
      mainQuestionIndex |-> 0, followupCount |-> 2],
     [action |-> "REPEAT_QUESTION", aiText |-> RespTexts[n],
      mainQuestionIndex |-> 2, followupCount |-> 1],
     [action |-> "END", aiText |-> RespTexts[n],
      mainQuestionIndex |-> 2, followupCount |-> 1]}

\* ------------------------------------------------------------- state
VARIABLES
    \* useState cells
    state, phase, mainQuestionIndex, followupCount, repeatRequestCount,
    currentAiText, transcript, turns, muted, silenceWarning,
    needsRestartListening, isAudioPlaying, sessionData,
    \* useRef cells
    recognitionRef, silenceTimerRef, speechStartedRef, noSpeechTimerRef,
    repeatQuestionTimerRef, audioRef, transcriptRef, isExitingRef,
    \* the browser: recognition objects, pending timers, audio elements, the
    \* object URL of the latest audio of each caller ("created" until revoked;
    \* nothing reads a URL whose element has finished, so it is kept for the
    \* step that finished the element and forgotten by the next)
    recs, silenceT, noSpeechT, repeatT, aud, audText, audioUrl, endListener,
    supported,
    \* suspended continuations
    door, pnt, rep,
    \* localStorage, router, component lifetime
    storage, navigated, mounted,
    \* bookkeeping: last names what the step that led here ran ("failure": the
    \* catch block of processNextTurn, a response's action: that response was
    \* applied, "expired": the repeat timer found no speech, "repeat": and
    \* repeatCurrentQuestion passed its guard, "repeated": its continuation
    \* returned, "restart": the 500ms timer, "cancelled": Stop Answer cleared
    \* a pending timer, "pause": the 1.5s timer called stop()); nSubmits counts
    \* the answers
    \* handed to processNextTurn and limit bounds them; turnsAtStart is turns
    \* and asked currentAiText as of the last startListening; action is the
    \* action of the latest response read; full and overflow flag a bound hit
    hist

vars == <<state, phase, mainQuestionIndex, followupCount, repeatRequestCount,
          currentAiText, transcript, turns, muted, silenceWarning,
          needsRestartListening, isAudioPlaying, sessionData,
          recognitionRef, silenceTimerRef, speechStartedRef, noSpeechTimerRef,
          repeatQuestionTimerRef, audioRef, transcriptRef, isExitingRef,
          recs, silenceT, noSpeechT, repeatT, aud, audText, audioUrl,
          endListener, supported, door, pnt, rep, storage, navigated, mounted, hist>>

\* the whole state as one record, so that a handler is a function on it
Cur ==
    [state |-> state, phase |-> phase, mainQuestionIndex |-> mainQuestionIndex,
     followupCount |-> followupCount, repeatRequestCount |-> repeatRequestCount,
     currentAiText |-> currentAiText, transcript |-> transcript, turns |-> turns,
     muted |-> muted, silenceWarning |-> silenceWarning,
     needsRestartListening |-> needsRestartListening,
     isAudioPlaying |-> isAudioPlaying, sessionData |-> sessionData,
     recognitionRef |-> recognitionRef, silenceTimerRef |-> silenceTimerRef,
     speechStartedRef |-> speechStartedRef, noSpeechTimerRef |-> noSpeechTimerRef,
     repeatQuestionTimerRef |-> repeatQuestionTimerRef, audioRef |-> audioRef,
     transcriptRef |-> transcriptRef, isExitingRef |-> isExitingRef,
     recs |-> recs, silenceT |-> silenceT, noSpeechT |-> noSpeechT,
     repeatT |-> repeatT, aud |-> aud, audText |-> audText,
     audioUrl |-> [k \in Callers |-> IF aud[k] = "none" THEN "none" ELSE audioUrl[k]],
     endListener |-> endListener,
     supported |-> supported, door |-> door, pnt |-> pnt, rep |-> rep,
     storage |-> storage, navigated |-> navigated, mounted |-> mounted,
     hist |-> [hist EXCEPT !.last = ""]]

Set(s) ==
    /\ state' = s.state /\ phase' = s.phase
    /\ mainQuestionIndex' = s.mainQuestionIndex
    /\ followupCount' = s.followupCount
    /\ repeatRequestCount' = s.repeatRequestCount
    /\ currentAiText' = s.currentAiText /\ transcript' = s.transcript
    /\ turns' = s.turns /\ muted' = s.muted
    /\ silenceWarning' = s.silenceWarning
    /\ needsRestartListening' = s.needsRestartListening
    /\ isAudioPlaying' = s.isAudioPlaying /\ sessionData' = s.sessionData
    /\ recognitionRef' = s.recognitionRef
    /\ silenceTimerRef' = s.silenceTimerRef
    /\ speechStartedRef' = s.speechStartedRef
    /\ noSpeechTimerRef' = s.noSpeechTimerRef
    /\ repeatQuestionTimerRef' = s.repeatQuestionTimerRef
    /\ audioRef' = s.audioRef /\ transcriptRef' = s.transcriptRef
    /\ isExitingRef' = s.isExitingRef
    /\ recs' = s.recs /\ silenceT' = s.silenceT /\ noSpeechT' = s.noSpeechT
    /\ repeatT' = s.repeatT /\ aud' = s.aud /\ audText' = s.audText
    /\ audioUrl' = s.audioUrl
    /\ endListener' = s.endListener
    /\ supported' = s.supported
    /\ door' = s.door /\ pnt' = s.pnt /\ rep' = s.rep
    /\ storage' = s.storage /\ navigated' = s.navigated /\ mounted' = s.mounted
    /\ hist' = s.hist

\* ------------------------------------------------------------- helpers
None == 0
Recs(s) == DOMAIN s.recs
NoRec == [live |-> FALSE, endPending |-> FALSE, restartPending |-> FALSE,
          cState |-> "", cAiText |-> "", cMuted |-> FALSE]
NoTurn == [pc |-> "idle", action |-> "", aiText |-> "", cMuted |-> FALSE,
           phase |-> "GREETING", mainQuestionIndex |-> 0, followupCount |-> 0,
           aiPromptedText |-> "", userTranscript |-> "", turnsSoFar |-> <<>>,
           repeatRequestCount |-> 0]
NoRepeat == [pc |-> "idle", text |-> ""]
\* a recognition object that can deliver no further event
Finished(s, r) ==
    /\ ~s.recs[r].live /\ ~s.recs[r].endPending /\ ~s.recs[r].restartPending
\* the slots of recs whose object is finished and has no timer left
Free(s) == {r \in Recs(s) : Finished(s, r)
                             /\ r \notin (s.silenceT \cup s.noSpeechT \cup s.repeatT)}
CaptureLive(s) == \E r \in Recs(s) : s.recs[r].live
\* an audio element between play() and its end, error or pause
AudioLive(s) == \E k \in Callers : s.aud[k] \in {"starting", "playing"}
Closure(s) == [state |-> s.state, aiText |-> s.currentAiText, muted |-> s.muted]

\* clearTimeout(ref.current) for each of the three timers; the id a ref holds
\* names the recognition object whose timer it is
ClearSilence(s) == [s EXCEPT !.silenceT = @ \ {s.silenceTimerRef}]
ClearNoSpeech(s) == [s EXCEPT !.noSpeechT = @ \ {s.noSpeechTimerRef}]
ClearRepeat(s) == [s EXCEPT !.repeatT = @ \ {s.repeatQuestionTimerRef}]
ClearAllTimers(s) == ClearRepeat(ClearNoSpeech(ClearSilence(s)))

\* recognition.stop(): capture stops at once, the end event is delivered later
RecognitionStop(s, r) ==
    IF r # None /\ s.recs[r].live
    THEN [s EXCEPT !.recs[r].live = FALSE, !.recs[r].endPending = TRUE]
    ELSE s

\* recognition.start() on object r
RecognitionStart(s, r) ==
    [s EXCEPT !.recs[r].live = TRUE]

\* recognitionRef.current.stop(); recognitionRef.current = null
StopCurrentRecognition(s) ==
    [RecognitionStop(s, s.recognitionRef) EXCEPT !.recognitionRef = None]

\* stopAllMedia without setIsAudioPlaying(false)
stopAllMediaKeepsFlag(s) ==
    LET a == IF s.audioRef # "none"
             THEN [s EXCEPT !.aud[s.audioRef] =
                                IF @ \in {"starting", "playing"} THEN "stopped" ELSE @,
                            !.audioRef = "none"]
             ELSE s
    IN  ClearAllTimers(StopCurrentRecognition(a))

stopAllMedia(s) ==
    LET a == IF s.audioRef # "none"
             THEN [s EXCEPT !.aud[s.audioRef] =
                                IF @ \in {"starting", "playing"} THEN "stopped" ELSE @,
                            !.audioRef = "none"]
             ELSE s
        b == StopCurrentRecognition(a)
        c == ClearAllTimers(b)
    IN  [c EXCEPT !.isAudioPlaying = FALSE]

\* stopListening that leaves the timers running
stopListeningKeepsTimers(s) == StopCurrentRecognition(s)

stopListening(s) == ClearAllTimers(StopCurrentRecognition(s))

\* new SpeechRecognition() in slot r with the handlers of the render whose
\* closure is c, the two timers, recognition.start() (213-313)
newRecognition(s, c, r) ==
    RecognitionStart(
        [s EXCEPT
            !.recs[r] = [live |-> FALSE, endPending |-> FALSE,
                         restartPending |-> FALSE, cState |-> c.state,
                         cAiText |-> c.aiText, cMuted |-> c.muted],
            !.speechStartedRef = FALSE,
            !.transcriptRef = "",
            !.silenceWarning = FALSE,
            !.noSpeechTimerRef = r, !.noSpeechT = @ \cup {r},
            !.repeatQuestionTimerRef = r, !.repeatT = @ \cup {r},
            !.recognitionRef = r,
            !.hist.turnsAtStart = s.turns,
            !.hist.asked = s.currentAiText],
        r)

\* startListening without the test for SpeechRecognition in window
startListeningUnchecked(s, c) ==
    IF s.isExitingRef THEN s
    ELSE IF Free(s) = {} THEN [s EXCEPT !.hist.full = TRUE]
    ELSE newRecognition(s, c, CHOOSE x \in Free(s) : \A y \in Free(s) : x <= y)

\* startListening of the render whose closure is c
startListening(s, c) ==
    IF s.isExitingRef \/ ~s.supported THEN s
    ELSE IF Free(s) = {} THEN [s EXCEPT !.hist.full = TRUE]
    ELSE newRecognition(s, c, CHOOSE x \in Free(s) : \A y \in Free(s) : x <= y)

\* the door-opening continuation after "await playAudio(greetingText)" (478-489)
afterGreeting(s) ==
    IF s.isExitingRef THEN [s EXCEPT !.door.pc = "done"]
    ELSE startListening(
             [s EXCEPT !.turns = <<Turn("ai", GreetingText, "")>>,
                       !.transcript = "",
                       !.state = "USER_LISTENING",
                       !.door.pc = "done"],
             [state |-> "DOOR_OPENING", aiText |-> "", muted |-> s.door.cMuted])

\* processNextTurn after "await playAudio(data.aiText)" (400-406, 415-430, 453-457)
afterAnswer(s) ==
    IF s.isExitingRef THEN [s EXCEPT !.pnt.pc = "idle"]
    ELSE IF s.pnt.action = "END" THEN
        [s EXCEPT !.storage = [turns |-> Append(s.pnt.turnsSoFar,
                                                Turn("ai", s.pnt.aiText, "")),
                               incomplete |-> FALSE,
                               repeatRequestCount |-> s.pnt.repeatRequestCount,
                               written |-> TRUE],
                  !.state = "DOOR_CLOSING",
                  !.pnt.pc = "closing"]
    ELSE startListening(
             [s EXCEPT !.transcript = "",
                       !.state = "USER_LISTENING",
                       !.pnt.pc = "idle"],
             [state |-> "USER_LISTENING", aiText |-> s.pnt.aiPromptedText,
              muted |-> s.pnt.cMuted])

\* afterRepeat without the request to restart listening
afterRepeatNoRestart(s) ==
    IF s.isExitingRef THEN [s EXCEPT !.rep.pc = "idle"]
    ELSE [s EXCEPT !.transcript = "",
                   !.transcriptRef = "",
                   !.state = "USER_LISTENING",
                   !.rep.pc = "idle",
                   !.hist.last = "repeated"]

\* repeatCurrentQuestion after "await playAudio(repeatText)" (197-204)
afterRepeat(s) ==
    IF s.isExitingRef THEN [s EXCEPT !.rep.pc = "idle"]
    ELSE [s EXCEPT !.transcript = "",
                   !.transcriptRef = "",
                   !.state = "USER_LISTENING",
                   !.needsRestartListening = TRUE,
                   !.rep.pc = "idle",
                   !.hist.last = "repeated"]

\* what follows "await playAudio(...)" in the continuation k
AfterPlay(s, k) ==
    IF k = "door" THEN afterGreeting(s)
    ELSE IF k = "pnt" THEN afterAnswer(s)
    ELSE afterRepeat(s)

\* playAudio(text) called by continuation k whose closure saw muted = m:
\* up to the first await (the request to /tts)
playAudio(s, k, text, m) ==
    IF m \/ s.isExitingRef THEN AfterPlay(s, k)
    ELSE [s EXCEPT !.aud[k] = "tts", !.audText[k] = text]

\* ------------------------------------------------------------- handlers
WarnMs == 25000
RepeatMs == 30000

\* the loop of recognition.onresult over event.results
RECURSIVE Concat(_, _)
Concat(ev, final) ==
    IF ev = <<>> THEN ""
    ELSE (IF Head(ev).isFinal = final THEN Head(ev).transcript ELSE "") \o Concat(Tail(ev), final)
finalTranscript(ev) == Concat(ev, TRUE)
interimTranscript(ev) == Concat(ev, FALSE)
currentTranscriptPrefersInterim(ev) ==
    IF interimTranscript(ev) # "" THEN interimTranscript(ev) ELSE finalTranscript(ev)
currentTranscriptOf(ev) ==
    IF finalTranscript(ev) # "" THEN finalTranscript(ev) ELSE interimTranscript(ev)

\* updatedTurns that holds the new turn alone
updatedTurnsAlone(s, userText) ==
    <<Turn("user", s.currentAiText, userText)>>

\* updatedTurns whose new turn carries the text the previous request was
\* made with
updatedTurnsStale(s, userText) ==
    Append(s.turns, Turn("user", s.pnt.aiPromptedText, userText))

\* updatedTurns of processNextTurn (359-365)
updatedTurns(s, userText) ==
    Append(s.turns, Turn("user", s.currentAiText, userText))

\* processNextTurn without setState("THINKING")
processNextTurnKeepsState(s, userText) ==
    IF ~s.sessionData \/ s.isExitingRef THEN s
    ELSE IF s.pnt.pc # "idle" THEN [s EXCEPT !.hist.overflow = TRUE]
    ELSE [s EXCEPT
             !.turns = updatedTurns(s, userText),
             !.pnt = [pc |-> "fetch", action |-> "", aiText |-> "",
                      cMuted |-> s.muted,
                      phase |-> s.phase,
                      mainQuestionIndex |-> s.mainQuestionIndex,
                      followupCount |-> s.followupCount,
                      aiPromptedText |-> s.currentAiText,
                      userTranscript |-> userText,
                      turnsSoFar |-> updatedTurns(s, userText),
                      repeatRequestCount |-> s.repeatRequestCount],
             !.hist.nSubmits = @ + 1]

\* processNextTurn whose request body holds turns instead of updatedTurns
processNextTurnSendsOldTurns(s, userText) ==
    IF ~s.sessionData \/ s.isExitingRef THEN s
    ELSE IF s.pnt.pc # "idle" THEN [s EXCEPT !.hist.overflow = TRUE]
    ELSE [s EXCEPT
             !.state = "THINKING",
             !.turns = updatedTurns(s, userText),
             !.pnt = [pc |-> "fetch", action |-> "", aiText |-> "",
                      cMuted |-> s.muted,
                      phase |-> s.phase,
                      mainQuestionIndex |-> s.mainQuestionIndex,
                      followupCount |-> s.followupCount,
                      aiPromptedText |-> s.currentAiText,
                      userTranscript |-> userText,
                      turnsSoFar |-> s.turns,
                      repeatRequestCount |-> s.repeatRequestCount],
             !.hist.nSubmits = @ + 1]

\* processNextTurn(userText) of the current render, up to the request
processNextTurn(s, userText) ==
    IF ~s.sessionData \/ s.isExitingRef THEN s
    ELSE IF s.pnt.pc # "idle" THEN [s EXCEPT !.hist.overflow = TRUE]
    ELSE [s EXCEPT
             !.state = "THINKING",
             !.turns = updatedTurns(s, userText),
             !.pnt = [pc |-> "fetch", action |-> "", aiText |-> "",
                      cMuted |-> s.muted,
                      phase |-> s.phase,
                      mainQuestionIndex |-> s.mainQuestionIndex,
                      followupCount |-> s.followupCount,
                      aiPromptedText |-> s.currentAiText,
                      userTranscript |-> userText,
                      turnsSoFar |-> updatedTurns(s, userText),
                      repeatRequestCount |-> s.repeatRequestCount],
             !.hist.nSubmits = @ + 1]

\* a catch block that goes back to USER_LISTENING without startListening()
processNextTurnCatchIdle(s) ==
    IF s.isExitingRef THEN [s EXCEPT !.pnt.pc = "idle", !.hist.last = "failure"]
    ELSE [s EXCEPT !.state = "USER_LISTENING", !.pnt.pc = "idle",
                   !.hist.last = "failure"]

\* the catch block of processNextTurn (459-465)
processNextTurnCatch(s) ==
    IF s.isExitingRef THEN [s EXCEPT !.pnt.pc = "idle", !.hist.last = "failure"]
    ELSE startListening(
             [s EXCEPT !.state = "USER_LISTENING", !.pnt.pc = "idle",
                       !.hist.last = "failure"],
             [state |-> "USER_LISTENING", aiText |-> s.pnt.aiPromptedText,
              muted |-> s.pnt.cMuted])

\* the response is read: the continuation holds data (390)
gotResponse(s, data) ==
    [s EXCEPT !.pnt.action = data.action, !.pnt.aiText = data.aiText,
              !.pnt.pc = "play", !.hist.last = data.action,
              !.hist.action = data.action]

\* the REPEAT_QUESTION branch that records the repeated text as an AI turn
applyRepeatQuestionAsTurn(s, data) ==
    [s EXCEPT !.repeatRequestCount = @ + 1,
              !.currentAiText = data.aiText,
              !.turns = Append(s.pnt.turnsSoFar, Turn("ai", data.aiText, "")),
              !.state = "AI_SPEAKING"]

\* the REPEAT_QUESTION branch without setRepeatRequestCount
applyRepeatQuestionUncounted(s, data) ==
    [s EXCEPT !.currentAiText = data.aiText,
              !.state = "AI_SPEAKING"]

\* the branch of processNextTurn for REPEAT_QUESTION, up to playAudio (392-398)
applyRepeatQuestion(s, data) ==
    [s EXCEPT !.repeatRequestCount = @ + 1,
              !.currentAiText = data.aiText,
              !.state = "AI_SPEAKING"]

\* the END branch that takes the counters of the response
applyEndCounting(s, data) ==
    [s EXCEPT !.currentAiText = data.aiText,
              !.mainQuestionIndex = data.mainQuestionIndex,
              !.followupCount = data.followupCount,
              !.state = "AI_SPEAKING"]

\* the branch for END, up to playAudio (409-413)
applyEnd(s, data) ==
    [s EXCEPT !.currentAiText = data.aiText,
              !.state = "AI_SPEAKING"]

\* the ASK branch without setFollowupCount
applyAskKeepsCount(s, data) ==
    [s EXCEPT !.currentAiText = data.aiText,
              !.mainQuestionIndex = data.mainQuestionIndex,
              !.phase = IF data.action = "ASK_FOLLOWUP" THEN "FOLLOWUP" ELSE "MAIN",
              !.turns = Append(s.pnt.turnsSoFar, Turn("ai", data.aiText, "")),
              !.state = "AI_SPEAKING"]

\* the branch for ASK_MAIN and ASK_FOLLOWUP, up to playAudio (433-451)
applyAsk(s, data) ==
    [s EXCEPT !.currentAiText = data.aiText,
              !.mainQuestionIndex = data.mainQuestionIndex,
              !.followupCount = data.followupCount,
              !.phase = IF data.action = "ASK_FOLLOWUP" THEN "FOLLOWUP" ELSE "MAIN",
              !.turns = Append(s.pnt.turnsSoFar, Turn("ai", data.aiText, "")),
              !.state = "AI_SPEAKING"]

\* processNextTurn after "const data = await response.json()"
applyResponse(s, data) ==
    playAudio(IF data.action = "REPEAT_QUESTION"
              THEN applyRepeatQuestion(gotResponse(s, data), data)
              ELSE IF data.action = "END"
              THEN applyEnd(gotResponse(s, data), data)
              ELSE applyAsk(gotResponse(s, data), data),
              "pnt", data.aiText, s.pnt.cMuted)

\* repeatCurrentQuestion of the render whose closure is c
repeatCurrentQuestion(s, c) ==
    IF c.aiText = "" \/ c.state # "USER_LISTENING" \/ s.isExitingRef THEN s
    ELSE IF s.rep.pc # "idle" THEN [s EXCEPT !.hist.overflow = TRUE]
    ELSE LET a == ClearAllTimers(StopCurrentRecognition(s))
             repeatText == RepeatPrefix \o c.aiText
         IN  playAudio([a EXCEPT !.silenceWarning = FALSE,
                                 !.state = "AI_SPEAKING",
                                 !.rep = [pc |-> "play", text |-> repeatText],
                                 !.hist.last = "repeat"],
                       "rep", repeatText, c.muted)

\* recognition.onresult that arms the 1.5s timer on every result
onresultArmsOnAny(s, r, ev) ==
    IF s.isExitingRef THEN s
    ELSE LET a == [ClearRepeat(ClearNoSpeech(s)) EXCEPT
                      !.speechStartedRef = TRUE,
                      !.silenceWarning = FALSE,
                      !.noSpeechTimerRef = None,
                      !.repeatQuestionTimerRef = None]
             b == IF currentTranscriptOf(ev) # ""
                  THEN [a EXCEPT !.transcript = currentTranscriptOf(ev),
                                 !.transcriptRef = currentTranscriptOf(ev)]
                  ELSE a
             c == ClearSilence(b)
         IN  [c EXCEPT !.silenceTimerRef = r, !.silenceT = @ \cup {r}]

\* recognition.onresult without setSilenceWarning(false)
onresultKeepsWarning(s, r, ev) ==
    IF s.isExitingRef THEN s
    ELSE LET a == [ClearRepeat(ClearNoSpeech(s)) EXCEPT
                      !.speechStartedRef = TRUE,
                      !.noSpeechTimerRef = None,
                      !.repeatQuestionTimerRef = None]
             b == IF currentTranscriptOf(ev) # ""
                  THEN [a EXCEPT !.transcript = currentTranscriptOf(ev),
                                 !.transcriptRef = currentTranscriptOf(ev)]
                  ELSE a
             c == ClearSilence(b)
         IN  IF finalTranscript(ev) # ""
             THEN [c EXCEPT !.silenceTimerRef = r, !.silenceT = @ \cup {r}]
             ELSE c

\* recognition.onresult of object r
onresult(s, r, ev) ==
    IF s.isExitingRef THEN s
    ELSE LET a == [ClearRepeat(ClearNoSpeech(s)) EXCEPT
                      !.speechStartedRef = TRUE,
                      !.silenceWarning = FALSE,
                      !.noSpeechTimerRef = None,
                      !.repeatQuestionTimerRef = None]
             b == IF currentTranscriptOf(ev) # ""
                  THEN [a EXCEPT !.transcript = currentTranscriptOf(ev),
                                 !.transcriptRef = currentTranscriptOf(ev)]
                  ELSE a
             c == ClearSilence(b)
         IN  IF finalTranscript(ev) # ""
             THEN [c EXCEPT !.silenceTimerRef = r, !.silenceT = @ \cup {r}]
             ELSE c

\* recognition.onerror of object r
onerror(s, r, kind) ==
    IF s.isExitingRef THEN s
    ELSE LET a == ClearAllTimers(s)
         IN  IF kind \in {"no-speech", "audio-capture"}
             THEN [a EXCEPT !.recs[r].restartPending = TRUE]
             ELSE a

\* the 500ms timer without the test of isExitingRef
restartTimerUnguarded(s, r) ==
    IF s.recs[r].cState = "USER_LISTENING" /\ ~s.speechStartedRef /\ ~s.recs[r].live
    THEN RecognitionStart([s EXCEPT !.hist.last = "restart"], r)
    ELSE [s EXCEPT !.hist.last = "restart"]

\* the 500ms timer of recognition.onerror (297-303)
restartTimer(s, r) ==
    IF s.recs[r].cState = "USER_LISTENING" /\ ~s.speechStartedRef /\ ~s.isExitingRef
       /\ ~s.recs[r].live
    THEN RecognitionStart([s EXCEPT !.hist.last = "restart"], r)
    ELSE [s EXCEPT !.hist.last = "restart"]

\* recognition.onend of object r, then the "end" listener of the effect
onend(s) == ClearAllTimers(s)

\* handleEnd that submits whatever it holds, empty or not
handleEndUnguarded(s) ==
    LET currentTranscript == IF s.transcriptRef # "" THEN s.transcriptRef ELSE s.transcript
    IN  IF s.state = "USER_LISTENING" /\ ~s.isExitingRef
        THEN processNextTurn(s, currentTranscript)
        ELSE s

handleEnd(s) ==
    LET currentTranscript == IF s.transcriptRef # "" THEN s.transcriptRef ELSE s.transcript
    IN  IF s.state = "USER_LISTENING" /\ currentTranscript # "" /\ ~s.isExitingRef
        THEN processNextTurn(s, currentTranscript)
        ELSE s

\* marks the step in which a handler cancelled a pending watchdog timer
Cancelled(old, new) ==
    IF <<new.silenceT, new.noSpeechT, new.repeatT>>
          # <<old.silenceT, old.noSpeechT, old.repeatT>>
    THEN [new EXCEPT !.hist.last = "cancelled"]
    ELSE new

handleStopAnswer(s) ==
    LET a == Cancelled(s, stopListening(s))
        currentTranscript == IF a.transcriptRef # "" THEN a.transcriptRef ELSE a.transcript
    IN  IF currentTranscript # "" THEN processNextTurn(a, currentTranscript) ELSE a

handleExitInterview(s) ==
    [stopAllMedia([s EXCEPT !.isExitingRef = TRUE]) EXCEPT
        !.storage = [turns |-> s.turns, incomplete |-> TRUE,
                     repeatRequestCount |-> s.repeatRequestCount,
                     written |-> TRUE],
        !.navigated = "report"]

\* the effect that restarts listening after a repeated question (317-322)
restartEffect(s) ==
    IF s.needsRestartListening /\ s.state = "USER_LISTENING" /\ ~s.isExitingRef
    THEN startListening([s EXCEPT !.needsRestartListening = FALSE], Closure(s))
    ELSE s

\* the dependencies of handleEnd and processNextTurn (466, 508)
TurnDeps(s) ==
    <<s.state, s.transcript, s.currentAiText, s.turns, s.phase,
      s.mainQuestionIndex, s.followupCount, s.repeatRequestCount, s.muted,
      s.sessionData>>

\* the effect that attaches the "end" listener to recognitionRef.current (495-508)
endEffect(old, s) ==
    IF TurnDeps(s) # TurnDeps(old) THEN [s EXCEPT !.endListener = s.recognitionRef]
    ELSE s

\* the dependencies of the door-opening effect (493)
DoorDeps(s) == <<s.state, s.sessionData, s.muted, s.currentAiText>>

\* the door-opening effect without the test of the state
doorEffectAnyState(old, s) ==
    IF DoorDeps(s) # DoorDeps(old)
    THEN [s EXCEPT !.door.timer = (s.sessionData /\ ~s.isExitingRef)]
    ELSE s

\* the door-opening effect: its cleanup clears the timer, its body arms it (468-493)
doorEffect(old, s) ==
    IF DoorDeps(s) # DoorDeps(old)
    THEN [s EXCEPT !.door.timer = (s.state = "DOOR_OPENING" /\ s.sessionData
                                   /\ ~s.isExitingRef)]
    ELSE s

\* the effects that run after the render that follows a handler
Render(old, s) ==
    IF ~s.mounted THEN s
    ELSE doorEffect(old, endEffect(old, restartEffect(s)))

\* States that no handler can tell apart are one state: a ref naming a timer
\* that has fired or was cleared, an audio element that has finished or a
\* recognition object that can deliver no further event behaves as null
\* (every use is "if (ref.current) ref.current.stop()/pause()/clearTimeout"),
\* the closure of a recognition object is read by its 500ms and 30s timers
\* alone, and the record of a continuation that has returned is never read
Normal(s) ==
    [s EXCEPT
        !.silenceTimerRef = IF @ \in s.silenceT THEN @ ELSE None,
        !.noSpeechTimerRef = IF @ \in s.noSpeechT THEN @ ELSE None,
        !.repeatQuestionTimerRef = IF @ \in s.repeatT THEN @ ELSE None,
        !.audioRef = IF @ # "none" /\ s.aud[@] \in {"starting", "playing"}
                     THEN @ ELSE "none",
        !.recognitionRef = IF @ # None /\ ~Finished(s, @) THEN @ ELSE None,
        !.endListener = IF @ # None /\ ~Finished(s, @) THEN @ ELSE None,
        !.recs = [r \in DOMAIN s.recs |->
                     IF Finished(s, r) /\ r \notin s.repeatT THEN NoRec
                     ELSE IF r \notin s.repeatT
                     THEN [s.recs[r] EXCEPT !.cAiText = "", !.cMuted = FALSE]
                     ELSE IF s.recs[r].cAiText = "" \/ s.recs[r].cState # "USER_LISTENING"
                     THEN [s.recs[r] EXCEPT !.cMuted = FALSE]
                     ELSE s.recs[r]],
        !.audText = [k \in Callers |-> IF s.aud[k] = "none" THEN "" ELSE s.audText[k]],
        !.door.cMuted = IF s.door.pc = "play" THEN @ ELSE FALSE,
        !.pnt = IF @.pc \in {"idle", "closing", "closed"}
                THEN [NoTurn EXCEPT !.pc = s.pnt.pc] ELSE @,
        !.rep = IF @.pc = "idle" THEN NoRepeat ELSE @]

Within(s) ==
    /\ ~s.hist.full
    /\ s.hist.nSubmits <= s.hist.limit

\* a handler that left the component in s, the render and its effects
Step(s) ==
    LET n == Normal(Render(Cur, s))
    IN  Within(n) /\ Set(n)

\* ------------------------------------------------------------- actions
\* The state after mounting.  The mount effect (60-62) clears isExitingRef;
\* it runs while the component mounts and at no other time (the second mount
\* of React's Strict Mode is part of mounting: no event is handled before it).
InitWith(limit, pool) ==
    /\ state = "DOOR_OPENING" /\ phase = "GREETING"
    /\ mainQuestionIndex = 0 /\ followupCount = 0 /\ repeatRequestCount = 0
    /\ currentAiText = "" /\ transcript = "" /\ turns = <<>>
    /\ muted = FALSE /\ silenceWarning = FALSE
    /\ needsRestartListening = FALSE /\ isAudioPlaying = FALSE
    /\ sessionData = FALSE
    /\ recognitionRef = None /\ silenceTimerRef = None
    /\ speechStartedRef = FALSE /\ noSpeechTimerRef = None
    /\ repeatQuestionTimerRef = None /\ audioRef = "none"
    /\ transcriptRef = "" /\ isExitingRef = FALSE
    /\ recs = [r \in 1..pool |-> NoRec] /\ silenceT = {} /\ noSpeechT = {} /\ repeatT = {}
    /\ aud = [k \in Callers |-> "none"] /\ audText = [k \in Callers |-> ""]
    /\ audioUrl = [k \in Callers |-> "none"]
    /\ endListener = None
    /\ supported \in BOOLEAN
    /\ door = [timer |-> FALSE, pc |-> "idle", cMuted |-> FALSE]
    /\ pnt = NoTurn
    /\ rep = NoRepeat
    /\ storage = [turns |-> <<>>, incomplete |-> FALSE, repeatRequestCount |-> 0,
                  written |-> FALSE]
    /\ navigated = "none" /\ mounted = TRUE
    /\ hist = [last |-> "", overflow |-> FALSE, full |-> FALSE, nSubmits |-> 0,
               limit |-> limit, turnsAtStart |-> <<>>, asked |-> "", action |-> ""]

Init == InitWith(MaxSubmits, MaxRec)

\* the effect reading localStorage (104-119)
LoadSession ==
    /\ mounted /\ ~sessionData /\ navigated = "none"
    /\ \E has \in BOOLEAN :
          Step(IF has THEN [Cur EXCEPT !.sessionData = TRUE]
               ELSE [Cur EXCEPT !.navigated = "setup"])

\* the 2000ms timer without the test of isExitingRef
DoorTimerUnguarded ==
    /\ door.timer
    /\ LET s == [Cur EXCEPT !.door.timer = FALSE]
       IN  Step(playAudio([s EXCEPT !.currentAiText = GreetingText,
                                    !.state = "AI_SPEAKING",
                                    !.door.pc = "play",
                                    !.door.cMuted = s.muted],
                          "door", GreetingText, s.muted))

\* the 2000ms timer of the door-opening effect (471-490)
DoorTimer ==
    /\ door.timer
    /\ LET s == [Cur EXCEPT !.door.timer = FALSE]
       IN  Step(IF s.isExitingRef THEN s
                ELSE playAudio([s EXCEPT !.currentAiText = GreetingText,
                                         !.state = "AI_SPEAKING",
                                         !.door.pc = "play",
                                         !.door.cMuted = s.muted],
                               "door", GreetingText, s.muted))

\* a /tts answer that is not ok leaves playAudio pending for ever
ttsResponseBlocks(s, k, outcome) ==
    IF outcome = "notok" THEN [s EXCEPT !.aud[k] = "none"]
    ELSE IF outcome # "ok" \/ s.isExitingRef THEN AfterPlay([s EXCEPT !.aud[k] = "none"], k)
    ELSE [s EXCEPT !.audioRef = k, !.aud[k] = "starting", !.audioUrl[k] = "created"]

\* playAudio after "await apiFetch('/tts')" (132-171); with exit requested
\* no URL is created or the one created is revoked at once (137-140)
ttsResponse(s, k, outcome) ==
    IF outcome # "ok" \/ s.isExitingRef THEN AfterPlay([s EXCEPT !.aud[k] = "none"], k)
    ELSE [s EXCEPT !.audioRef = k, !.aud[k] = "starting", !.audioUrl[k] = "created"]

TtsResponse ==
    \E k \in Callers, outcome \in {"ok", "notok", "throw"} :
        /\ aud[k] = "tts"
        /\ Step(ttsResponse(Cur, k, outcome))

\* audio.onplay (146-150)
AudioOnPlay ==
    \E k \in Callers :
        /\ aud[k] = "starting"
        /\ Step([Cur EXCEPT !.aud[k] = "playing",
                            !.isAudioPlaying = IF isExitingRef THEN @ ELSE TRUE])

\* audio.onended without resolve()
AudioOnEndedUnresolved ==
    \E k \in Callers :
        /\ aud[k] = "playing"
        /\ Step([Cur EXCEPT !.aud[k] = "none", !.isAudioPlaying = FALSE,
                            !.audioUrl[k] = "none"])

\* audio.onended (151-155)
AudioOnEnded ==
    \E k \in Callers :
        /\ aud[k] = "playing"
        /\ Step(AfterPlay([Cur EXCEPT !.aud[k] = "none", !.isAudioPlaying = FALSE,
                                      !.audioUrl[k] = "none"], k))

\* audio.onerror (156-159); an element stopped by src = "" reports an error too
AudioOnError ==
    \E k \in Callers :
        /\ aud[k] \in {"starting", "playing", "stopped"}
        /\ Step(AfterPlay([Cur EXCEPT !.aud[k] = "none", !.isAudioPlaying = FALSE], k))

\* audio.play() rejects (167-170)
AudioPlayRejected ==
    \E k \in Callers :
        /\ aud[k] = "starting"
        /\ Step(AfterPlay([Cur EXCEPT !.aud[k] = "none", !.isAudioPlaying = FALSE], k))

RecResult ==
    \E r \in Recs(Cur), ev \in ResultEvents :
        /\ recs[r].live
        /\ Step(onresult(Cur, r, ev))

\* an error event: the browser stops the capture and will report its end
RecError ==
    \E r \in Recs(Cur), kind \in ErrorKinds :
        /\ recs[r].live
        /\ Step(onerror([Cur EXCEPT !.recs[r].live = FALSE,
                                    !.recs[r].endPending = TRUE], r, kind))

\* the end event of object r: after stop(), after an error, or by itself
RecEnd ==
    \E r \in Recs(Cur) :
        /\ recs[r].live \/ recs[r].endPending
        /\ LET a == onend([Cur EXCEPT !.recs[r].live = FALSE,
                                      !.recs[r].endPending = FALSE])
           IN  Step(IF endListener = r THEN handleEnd(a) ELSE a)

\* the end event has been delivered long before the 500ms have passed
RestartTimer ==
    \E r \in Recs(Cur) :
        /\ recs[r].restartPending /\ ~recs[r].endPending
        /\ Step(restartTimer([Cur EXCEPT !.recs[r].restartPending = FALSE], r))

\* the 25 second timer (226-230)
WarnTimer ==
    \E r \in noSpeechT :
        LET s == [Cur EXCEPT !.noSpeechT = @ \ {r}]
        IN  Step(IF ~s.speechStartedRef /\ ~s.isExitingRef
                 THEN [s EXCEPT !.silenceWarning = TRUE] ELSE s)

\* the 30 second timer (233-237): armed with the 25 second one, it fires later
RepeatTimer ==
    \E r \in repeatT :
        /\ WarnMs < RepeatMs => r \notin noSpeechT
        /\ LET s == [Cur EXCEPT !.repeatT = @ \ {r}]
           IN  Step(IF ~s.speechStartedRef /\ ~s.isExitingRef
                    THEN repeatCurrentQuestion([s EXCEPT !.hist.last = "expired"],
                                               [state |-> s.recs[r].cState,
                                                aiText |-> s.recs[r].cAiText,
                                                muted |-> s.recs[r].cMuted])
                    ELSE s)

\* the 1.5 second timer (280-284)
SilenceTimer ==
    \E r \in silenceT :
        LET s == [Cur EXCEPT !.silenceT = @ \ {r}]
        IN  Step(IF s.speechStartedRef /\ s.transcriptRef # "" /\ ~s.isExitingRef
                 THEN RecognitionStop([s EXCEPT !.hist.last = "pause"], r) ELSE s)

\* the Stop Answer button, rendered in USER_LISTENING (703-711)
StopAnswer ==
    /\ mounted /\ state = "USER_LISTENING"
    /\ Step(handleStopAnswer(Cur))

\* the Exit & View Report button (576-581)
ExitInterview ==
    /\ mounted
    /\ Step(handleExitInterview(Cur))

\* "await apiFetch('/turn/next')" returns or throws (369-388)
DecisionResponse ==
    /\ pnt.pc = "fetch"
    /\ \E ok \in BOOLEAN :
          Step(IF ~ok THEN processNextTurnCatch(Cur)
               ELSE IF isExitingRef THEN [Cur EXCEPT !.pnt.pc = "idle"]
               ELSE [Cur EXCEPT !.pnt.pc = "json"])

\* "await response.json()" returns or throws (390)
ResponseBody ==
    /\ pnt.pc = "json"
    /\ \/ \E data \in Responses(hist.nSubmits) : Step(applyResponse(Cur, data))
       \/ Step(processNextTurnCatch(Cur))

\* the 2000ms timer after the closing line (425-429)
ClosingTimer ==
    /\ pnt.pc = "closing"
    /\ Step([Cur EXCEPT !.pnt.pc = "closed",
                        !.navigated = IF isExitingRef THEN @ ELSE "report"])

\* the mute button (616-621)
ToggleMute ==
    /\ mounted
    /\ Step([Cur EXCEPT !.muted = ~@])

\* the router has left the page: the cleanups of the effects run (88-93, 492, 507)
Unmount ==
    /\ mounted /\ navigated # "none"
    /\ Step([stopAllMedia([Cur EXCEPT !.isExitingRef = TRUE]) EXCEPT
                !.door.timer = FALSE, !.endListener = None, !.mounted = FALSE])

Next ==
    \/ LoadSession \/ DoorTimer
    \/ TtsResponse \/ AudioOnPlay \/ AudioOnEnded \/ AudioOnError \/ AudioPlayRejected
    \/ RecResult \/ RecError \/ RecEnd \/ RestartTimer
    \/ WarnTimer \/ RepeatTimer \/ SilenceTimer
    \/ StopAnswer \/ ExitInterview
    \/ DecisionResponse \/ ResponseBody \/ ClosingTimer
    \/ ToggleMute \/ Unmount

Spec == Init /\ [][Next]_vars

\* the same component with one more answer submitted
InitLong == InitWith(MaxSubmits + 1, MaxRec)
SpecLong == InitLong /\ [][Next]_vars

\* The steps of TtsResponse, AudioOnPlay, AudioOnEnded, AudioOnError and
\* AudioPlayRejected, told by what they do to the status of an element: the
\* request to /tts settles, an element handed to play() plays, ends, fails or
\* is refused.  The browser delivers one of these events for as long as one
\* is due, whatever else the page does.
AudStatus == {"none", "tts", "starting", "playing", "stopped"}
PlaybackSettles ==
    /\ aud' \in [Callers -> AudStatus]
    /\ \E k \in Callers :
          \/ aud[k] = "tts" /\ aud'[k] \in {"starting", "none"}
          \/ aud[k] = "starting" /\ aud'[k] \in {"playing", "none"}
          \/ aud[k] \in {"playing", "stopped"} /\ aud'[k] = "none"
SpecFair == Init /\ [][Next]_vars /\ WF_aud(PlaybackSettles)

\* The steps of RecEnd that deliver the end event of a capture stopped by
\* stop() or by an error, told by what they do to the object: it is no
\* longer live and its end event is no longer due.  The browser delivers the
\* end event of a stopped capture.
Ended(c) ==
    {NoRec} \cup {[c EXCEPT !.live = FALSE, !.endPending = FALSE,
                            !.cAiText = t, !.cMuted = m] :
                     t \in {"", c.cAiText}, m \in {FALSE, c.cMuted}}
CaptureEnds ==
    \E r \in DOMAIN recs :
        /\ recs[r].endPending
        /\ recs' \in {[recs EXCEPT ![r] = x] : x \in Ended(recs[r])}
SpecEnds == Init /\ [][Next]_vars /\ WF_recs(CaptureEnds)

\* two continuations of one kind are never suspended at once, so one slot per
\* kind holds them
OneOfAKind == ~hist.overflow

\* ------------------------------------------------------------- properties
IsPrefix(a, b) == Len(a) <= Len(b) /\ SubSeq(b, 1, Len(a)) = a

\* the step runs the guard-passing part of repeatCurrentQuestion; with the
\* closure muted the whole branch is one step
RepeatStarts == hist'.last = "repeat" \/ (hist'.last = "repeated" /\ rep.pc = "idle")
\* the step is the continuation of repeatCurrentQuestion after playAudio
RepeatEnds == hist'.last = "repeated"
\* the step is the catch block of processNextTurn, exit not requested
FailureStep == hist'.last = "failure" /\ ~isExitingRef'

\* C1: in every reachable state at most one of "a speech-capture session is
\* live" and "an audio playback is live" is true.
C1_CaptureOrPlayback == ~(CaptureLive(Cur) /\ AudioLive(Cur))

C3_TurnsGrow == [][turns # <<>> => IsPrefix(turns, turns')]_vars

\* greeting, answer and next question are recorded
C3_Witness ==
    /\ Len(turns) = 3
    /\ turns[1] = Turn("ai", GreetingText, "")
    /\ turns[2].type = "user" /\ turns[3].type = "ai"

\* C4: when the decision call of a submitted answer fails and exit has not
\* been requested, the state goes from THINKING to USER_LISTENING,
\* currentAiText, phase, mainQuestionIndex, followupCount and
\* repeatRequestCount equal the values the call was made with, and a new
\* capture session is started.
C4_FailureRecovers ==
    [][FailureStep =>
          /\ state = "THINKING" /\ state' = "USER_LISTENING"
          /\ currentAiText' = pnt.aiPromptedText
          /\ phase' = pnt.phase
          /\ mainQuestionIndex' = pnt.mainQuestionIndex
          /\ followupCount' = pnt.followupCount
          /\ repeatRequestCount' = pnt.repeatRequestCount
          /\ recognitionRef' # None /\ recognitionRef' # recognitionRef
          /\ recs'[recognitionRef'].live
          /\ recognitionRef' \in repeatT']_vars

\* the recovery has run: listening again to the question that was answered
C4_Witness ==
    /\ hist.last = "failure" /\ ~isExitingRef
    /\ state = "USER_LISTENING" /\ currentAiText = GreetingText
    /\ CaptureLive(Cur)

\* C5: after the recovery from a failed decision call the turn history is
\* the one that existed when the capture session of the answer began.
C5_FailureRecordsNoTurn ==
    [][FailureStep => turns' = hist.turnsAtStart]_vars

\* C6: each time the repeat timer fires with no speech observed and the
\* repeat branch runs, repeatRequestCount increases by exactly one.
C6_TimerRepeatCounts ==
    [][RepeatStarts => repeatRequestCount' = repeatRequestCount + 1]_vars

\* C7: repeatRequestCount never decreases; applying a REPEAT_QUESTION
\* response increases it by exactly one; ASK_MAIN, ASK_FOLLOWUP, END and a
\* failed call leave it unchanged.
C7_RepeatCountOfResponses ==
    [][/\ repeatRequestCount' >= repeatRequestCount
       /\ hist'.last = "REPEAT_QUESTION" => repeatRequestCount' = repeatRequestCount + 1
       /\ hist'.last \in {"ASK_MAIN", "ASK_FOLLOWUP", "END", "failure"}
             => repeatRequestCount' = repeatRequestCount]_vars

\* a REPEAT_QUESTION response has been applied
C7_Witness == hist.last = "REPEAT_QUESTION" /\ repeatRequestCount = 1

\* C8: the timer-driven repeat branch issues no decision request, leaves
\* turns, phase, mainQuestionIndex, followupCount and currentAiText
\* unchanged, stops the current capture session before the playback, and,
\* unless exit is requested, ends in USER_LISTENING with a fresh capture
\* session started and the transcript cleared.
C8_RepeatFrame ==
    [][(RepeatStarts \/ rep.pc = "play") =>
          /\ hist'.nSubmits = hist.nSubmits
          /\ UNCHANGED <<turns, phase, mainQuestionIndex, followupCount, currentAiText>>
          /\ RepeatStarts =>
                /\ state = "USER_LISTENING"
                /\ recognitionRef # None => ~recs'[recognitionRef].live
                /\ recognitionRef' # recognitionRef \/ recognitionRef' = None
                /\ rep'.pc = "play" => state' = "AI_SPEAKING"
          /\ RepeatEnds =>
                /\ state' = "USER_LISTENING" /\ transcript' = ""
                /\ recognitionRef' # None /\ recognitionRef' # recognitionRef
                /\ recs'[recognitionRef'].live
                /\ recognitionRef' \in repeatT']_vars

\* the repeat utterance has been played to its end and listening restarted
C8_Witness ==
    /\ hist.last = "repeated" /\ ~isExitingRef
    /\ state = "USER_LISTENING" /\ transcript = ""
    /\ CaptureLive(Cur) /\ aud["rep"] = "none" /\ ~muted

\* C9: the text of a repeat utterance is "Let me repeat the question. "
\* followed by the interviewer text that is current when it is requested.
C9_RepeatsCurrentText ==
    [][RepeatStarts /\ aud'["rep"] = "tts" =>
          audText'["rep"] = RepeatPrefix \o currentAiText]_vars

\* C10: in every listening session whose repeat timer expires with no
\* recognition result observed and exit not requested, the repeat branch is
\* invoked: the timer never expires without the branch running.
C10_ExpiryRepeats == hist.last # "expired"

\* the step is handleExitInterview setting the exiting flag
ExitStep == ~isExitingRef /\ isExitingRef' /\ mounted'
\* what handleExitInterview writes to localStorage in the current state
ExitRecord ==
    [turns |-> turns, incomplete |-> TRUE,
     repeatRequestCount |-> repeatRequestCount, written |-> TRUE]

\* C11: an exit requested by the user, in whatever state, sets the exiting
\* flag, leaves no playback and no capture live and no watchdog timer
\* pending, persists the turn history and repeatRequestCount of that moment
\* with the incomplete marker true, and signals navigation, all in that one
\* step; and once the history is persisted by an exit no later step changes
\* the persisted turns.
C11_ExitTearsDown ==
    [][/\ ExitStep =>
             /\ isExitingRef'
             /\ \A k \in Callers : aud'[k] \notin {"starting", "playing"}
             /\ \A r \in DOMAIN recs : ~recs'[r].live
             /\ silenceT' = {} /\ noSpeechT' = {} /\ repeatT' = {}
             /\ storage' = ExitRecord
             /\ navigated' = "report"
       /\ (isExitingRef /\ storage.incomplete) => storage'.turns = storage.turns]_vars

\* the END branch has persisted the completed history
EndPersisted == pnt.pc \in {"closing", "closed"}

\* C12: once an END response has been applied and the completed history
\* persisted, the persisted state keeps the incomplete marker false and the
\* closing AI turn as its last turn, also when exit is requested afterwards.
C12_CompleteStaysComplete ==
    EndPersisted =>
        /\ ~storage.incomplete
        /\ storage.turns # <<>>
        /\ storage.turns[Len(storage.turns)] = Turn("ai", currentAiText, "")

\* the step applies an END response, exit not requested
EndApplied == hist'.last = "END" /\ ~isExitingRef
\* the step is the END branch after "await playAudio", exit not requested
EndCompletes == pnt'.pc = "closing" /\ pnt.pc # "closing"

\* C13: applying an END response without exit appends exactly one AI turn
\* with the response text to the turn history and invokes the playback of
\* that text; when the playback has resolved the state is DOOR_CLOSING and
\* the persisted history is the prior history, the user turn and that AI
\* turn, with the incomplete marker false.
C13_EndApplied ==
    [][/\ EndApplied =>
             /\ turns' = Append(turns, Turn("ai", currentAiText', ""))
             /\ currentAiText' = RespTexts[hist.nSubmits]
             /\ turns[Len(turns)].type = "user"
             /\ pnt.cMuted \/ (aud'["pnt"] = "tts" /\ audText'["pnt"] = currentAiText')
       /\ EndCompletes =>
             /\ state' = "DOOR_CLOSING"
             /\ storage' = [turns |-> Append(turns, Turn("ai", currentAiText', "")),
                            incomplete |-> FALSE,
                            repeatRequestCount |-> storage'.repeatRequestCount,
                            written |-> TRUE]]_vars

AskKinds == {"ASK_MAIN", "ASK_FOLLOWUP"}
\* the step applies an ASK_MAIN or ASK_FOLLOWUP response, exit not requested
AskApplied == hist'.last \in AskKinds /\ ~isExitingRef
\* the step is the ASK branch after "await playAudio", exit not requested
AskCompletes ==
    /\ ~isExitingRef'
    /\ \/ AskApplied /\ pnt'.pc # "play"
       \/ pnt.pc = "play" /\ pnt.action \in AskKinds /\ pnt'.pc # "play"

\* C14: applying an ASK_MAIN or ASK_FOLLOWUP response sets phase to MAIN or
\* FOLLOWUP, mainQuestionIndex and followupCount to the values of the
\* response and currentAiText to its text, appends exactly one AI turn with
\* that text after the user turn and invokes the playback of that text; when
\* the playback has resolved without exit the state is USER_LISTENING and a
\* capture session is started.
C14_AskApplied ==
    [][/\ AskApplied =>
             \E data \in Responses(hist.nSubmits) :
                /\ data.action = hist'.last
                /\ phase' = (IF data.action = "ASK_MAIN" THEN "MAIN" ELSE "FOLLOWUP")
                /\ mainQuestionIndex' = data.mainQuestionIndex
                /\ followupCount' = data.followupCount
                /\ currentAiText' = data.aiText
                /\ turns[Len(turns)].type = "user"
                /\ turns' = Append(turns, Turn("ai", data.aiText, ""))
                /\ pnt.cMuted \/ (aud'["pnt"] = "tts" /\ audText'["pnt"] = data.aiText)
       /\ AskCompletes =>
             /\ state' = "USER_LISTENING"
             /\ recognitionRef' # None /\ recognitionRef' # recognitionRef
             /\ recs'[recognitionRef'].live
             /\ recognitionRef' \in repeatT']_vars

\* a follow-up question has been asked and played, and listening restarted
C14_Witness ==
    /\ state = "USER_LISTENING" /\ phase = "FOLLOWUP" /\ ~isExitingRef
    /\ mainQuestionIndex = 0 /\ followupCount = 2 /\ currentAiText = "Q1"
    /\ Len(turns) = 3 /\ turns[3] = Turn("ai", "Q1", "")
    /\ CaptureLive(Cur) /\ aud["pnt"] = "none" /\ ~muted

\* the step applies a REPEAT_QUESTION response, exit not requested
RepeatApplied == hist'.last = "REPEAT_QUESTION" /\ ~isExitingRef
\* the step is the REPEAT_QUESTION branch after "await playAudio", exit not
\* requested
RepeatCompletes ==
    /\ ~isExitingRef'
    /\ \/ RepeatApplied /\ pnt'.pc # "play"
       \/ pnt.pc = "play" /\ pnt.action = "REPEAT_QUESTION" /\ pnt'.pc # "play"

\* C15: applying a REPEAT_QUESTION response appends no turn and leaves
\* phase, mainQuestionIndex and followupCount unchanged; it increments
\* repeatRequestCount by one, sets currentAiText to the response text and
\* invokes the playback of that text; when the playback has resolved without
\* exit the state is USER_LISTENING and a capture session is started, still
\* with no turn appended and the counters unchanged.
C15_RepeatQuestionFrame ==
    [][/\ (RepeatApplied \/ RepeatCompletes) =>
             UNCHANGED <<turns, phase, mainQuestionIndex, followupCount>>
       /\ RepeatApplied =>
             /\ repeatRequestCount' = repeatRequestCount + 1
             /\ currentAiText' = RespTexts[hist.nSubmits]
             /\ pnt.cMuted \/ (aud'["pnt"] = "tts" /\ audText'["pnt"] = currentAiText')
       /\ (RepeatCompletes /\ ~RepeatApplied) =>
             UNCHANGED <<repeatRequestCount, currentAiText>>
       /\ RepeatCompletes =>
             /\ state' = "USER_LISTENING"
             /\ recognitionRef' # None /\ recognitionRef' # recognitionRef
             /\ recs'[recognitionRef'].live
             /\ recognitionRef' \in repeatT']_vars

\* the repeated question has been played and listening restarted: the
\* history still ends with the user turn
C15_Witness ==
    /\ state = "USER_LISTENING" /\ phase = "GREETING" /\ ~isExitingRef
    /\ repeatRequestCount = 1 /\ currentAiText = "Q1"
    /\ Len(turns) = 2 /\ turns[2].type = "user"
    /\ CaptureLive(Cur) /\ aud["pnt"] = "none" /\ ~muted /\ pnt.pc = "idle"

\* the step hands an answer to processNextTurn, which appends its user turn
Submits == hist'.nSubmits = hist.nSubmits + 1

\* C16: every user turn appended to the turn history carries as aiText the
\* interviewer text that was current when the capture session of that turn,
\* the last one started before the answer is submitted, was started.
C16_UserTurnAnswersAsked ==
    [][Submits =>
          /\ turns' = Append(turns, turns'[Len(turns')])
          /\ turns'[Len(turns')].type = "user"
          /\ turns'[Len(turns')].aiText = hist.asked]_vars

\* the answer to a question repeated on a REPEAT_QUESTION response has been
\* recorded with the repeated text
C16_Witness ==
    /\ Len(turns) = 3 /\ repeatRequestCount = 1 /\ state = "THINKING"
    /\ turns[2] = Turn("user", GreetingText, "a")
    /\ turns[3] = Turn("user", "Q1", "a")

\* the audio of continuation k has been handed to audio.play()
Playing(k) == aud[k] \in {"starting", "playing"}
\* the turn history holds an AI turn with the given text
Recorded(text) == \E i \in 1..Len(turns) : turns[i] = Turn("ai", text, "")

\* C17: while the greeting, a question or the closing line is being played
\* its AI turn is already in the turn history, and while a decision request
\* is outstanding the user turn it was made for is the last turn of the
\* history.
C17_RecordedBeforePlayed ==
    /\ Playing("door") => Recorded(audText["door"])
    /\ (Playing("pnt") /\ pnt.pc = "play" /\ pnt.action # "REPEAT_QUESTION")
          => Recorded(audText["pnt"])
    /\ pnt.pc \in {"fetch", "json"} =>
          /\ turns # <<>>
          /\ turns[Len(turns)] = Turn("user", pnt.aiPromptedText, pnt.userTranscript)

\* C18: once the exiting flag is set no step changes state, phase,
\* currentAiText, turns, mainQuestionIndex, followupCount or
\* repeatRequestCount, and the persisted storage changes only by the exit
\* handler writing it again: every continuation that resumes after exit is
\* abandoned.
C18_ExitAbandons ==
    [][isExitingRef =>
          /\ UNCHANGED <<state, phase, currentAiText, turns, mainQuestionIndex,
                         followupCount, repeatRequestCount>>
          /\ storage' = storage \/ storage' = ExitRecord]_vars

\* no watchdog timer is pending
NoTimers == silenceT = {} /\ noSpeechT = {} /\ repeatT = {}

\* C19: every step that leaves USER_LISTENING (to THINKING by the end of the
\* capture or by Stop Answer, to AI_SPEAKING by the repeat), the exit step
\* and the unmount step leave no watchdog timer pending, and a no-speech
\* warning or repeat timer is pending only in USER_LISTENING for the capture
\* session in recognitionRef: no timer armed in a listening session outlives
\* it.
C19_TimersCancelled ==
    [][/\ (state = "USER_LISTENING" /\ state' # "USER_LISTENING") => NoTimers'
       /\ (~isExitingRef /\ isExitingRef') => NoTimers'
       /\ (mounted /\ ~mounted') => NoTimers'
       /\ \A r \in noSpeechT' \cup repeatT' :
             state' = "USER_LISTENING" /\ recognitionRef' = r]_vars

\* Stop Answer has left the listening session and cancelled a pending timer
C19_Witness ==
    /\ hist.last = "cancelled" /\ state = "THINKING" /\ pnt.pc = "fetch"
    /\ NoTimers /\ ~isExitingRef

\* the interviewer is speaking the greeting, a question or a repeat
SpeakingToListen ==
    /\ state = "AI_SPEAKING"
    /\ ~(pnt.pc = "play" /\ pnt.action = "END")
\* listening, with the capture session of recognitionRef started
ListeningStarted ==
    /\ state = "USER_LISTENING"
    /\ recognitionRef # None /\ recs[recognitionRef].live

Held == IF transcriptRef # "" THEN transcriptRef ELSE transcript
\* the step is the end event of a capture session or the Stop Answer button
EndOrStop == RecEnd \/ StopAnswer

\* C21: an answer is submitted (the state goes from USER_LISTENING to
\* THINKING, a user turn is appended, a decision request is issued) only in
\* one step and only with a non-empty held transcript, which is the text
\* submitted; a capture end event or a Stop Answer in USER_LISTENING while
\* the held transcript is empty issues no request, appends no turn and
\* leaves the state USER_LISTENING.
C21_SubmitsNeedWords ==
    [][/\ Submits =>
             /\ state = "USER_LISTENING" /\ state' = "THINKING"
             /\ Held # ""
             /\ turns'[Len(turns')].userTranscript = Held
             /\ pnt'.pc = "fetch" /\ pnt'.userTranscript = Held
       /\ (state = "USER_LISTENING" /\ state' = "THINKING") => Submits
       /\ (Len(turns') > Len(turns) /\ turns'[Len(turns')].type = "user") => Submits
       /\ (pnt'.pc = "fetch" /\ pnt.pc # "fetch") => Submits
       /\ (EndOrStop /\ state = "USER_LISTENING" /\ Held = "") =>
             /\ state' = "USER_LISTENING"
             /\ turns' = turns
             /\ hist'.nSubmits = hist.nSubmits
             /\ pnt'.pc = pnt.pc]_vars

\* the capture session after the greeting has ended with nothing heard: the
\* page is still listening, with no request made and no turn appended
C21_Witness ==
    /\ state = "USER_LISTENING" /\ Held = "" /\ ~isExitingRef /\ mounted /\ supported
    /\ ~CaptureLive(Cur) /\ recognitionRef = None /\ NoTimers
    /\ turns = <<Turn("ai", GreetingText, "")>> /\ pnt.pc = "idle" /\ hist.nSubmits = 0
    /\ \A r \in DOMAIN recs : ~recs[r].endPending /\ ~recs[r].restartPending

\* C22: the text submitted to the decision service is the accumulator
\* snapshot (transcriptRef) built from the results recognised since the
\* capture session of that answer was started: a session in which nothing
\* was recognised submits nothing, whatever an earlier session recognised.
C22_SubmitsSnapshot ==
    [][Submits =>
          /\ transcriptRef # ""
          /\ pnt'.userTranscript = transcriptRef
          /\ turns'[Len(turns')].userTranscript = transcriptRef]_vars

\* C23: once a response of the decision service has been applied, phase is
\* FOLLOWUP exactly when the latest response applied had the action
\* ASK_FOLLOWUP, also when the latest response was REPEAT_QUESTION or END.
C23_PhaseOfLatestResponse ==
    hist.action # "" => (phase = "FOLLOWUP" <=> hist.action = "ASK_FOLLOWUP")

\* C24: mainQuestionIndex and followupCount change only in the step that
\* applies an ASK_MAIN or ASK_FOLLOWUP response, and then to the values of
\* that response; every other step (timer-driven repeat, REPEAT_QUESTION,
\* END, failure, Stop Answer, exit) leaves both unchanged.
C24_CountersFromService ==
    [][/\ hist'.last \in AskKinds =>
             \E data \in Responses(hist.nSubmits) :
                /\ data.action = hist'.last
                /\ mainQuestionIndex' = data.mainQuestionIndex
                /\ followupCount' = data.followupCount
       /\ hist'.last \notin AskKinds =>
             UNCHANGED <<mainQuestionIndex, followupCount>>]_vars

\* an ASK_MAIN response has been applied: the counters are the ones it held
C24_Witness ==
    /\ hist.action = "ASK_MAIN" /\ phase = "MAIN"
    /\ mainQuestionIndex = 1 /\ followupCount = 0 /\ currentAiText = "Q1"

\* C25: whenever the state is THINKING, DOOR_OPENING or DOOR_CLOSING no
\* capture session and no audio playback is live.
C25_QuietOutsideTurns ==
    state \in {"THINKING", "DOOR_OPENING", "DOOR_CLOSING"}
        => ~CaptureLive(Cur) /\ ~AudioLive(Cur)

\* C26: once the state has left DOOR_OPENING no step makes it DOOR_OPENING
\* again, and once the state is DOOR_CLOSING no step changes it, whatever
\* event arrives afterwards.
C26_DoorsOneWay ==
    [][/\ state # "DOOR_OPENING" => state' # "DOOR_OPENING"
       /\ state = "DOOR_CLOSING" => state' = "DOOR_CLOSING"]_vars

\* the doors have closed, the closing timer has fired and the page was left
C26_Witness ==
    /\ state = "DOOR_CLOSING" /\ pnt.pc = "closed"
    /\ navigated = "report" /\ ~mounted

\* the transitions of the interview state
Transitions ==
    {<<"DOOR_OPENING", "AI_SPEAKING">>, <<"AI_SPEAKING", "USER_LISTENING">>,
     <<"USER_LISTENING", "THINKING">>, <<"USER_LISTENING", "AI_SPEAKING">>,
     <<"THINKING", "AI_SPEAKING">>, <<"THINKING", "DOOR_CLOSING">>,
     <<"THINKING", "USER_LISTENING">>}

\* C27: every step that changes the interview state takes one of the
\* transitions DOOR_OPENING->AI_SPEAKING, AI_SPEAKING->USER_LISTENING,
\* USER_LISTENING->THINKING, USER_LISTENING->AI_SPEAKING,
\* THINKING->AI_SPEAKING, THINKING->DOOR_CLOSING, THINKING->USER_LISTENING.
C27_OnlyListedTransitions ==
    [][state' # state => <<state, state'>> \in Transitions]_vars

\* C28: the state leaves DOOR_OPENING only in the step of the 2000ms timer
\* of the door-opening effect, armed with the session context loaded, and
\* only with the exiting flag not set; as long as the state is DOOR_OPENING
\* (the session context missing, or exit or unmount before the timer fires)
\* no playback and no capture has started and no turn is recorded.
C28_DoorOpensAfterDelay ==
    [][/\ (state = "DOOR_OPENING" /\ state' # "DOOR_OPENING") =>
             /\ door.timer /\ ~door'.timer
             /\ sessionData /\ mounted
             /\ ~isExitingRef /\ ~isExitingRef'
       /\ state' = "DOOR_OPENING" =>
             /\ turns' = <<>> /\ currentAiText' = ""
             /\ \A k \in Callers : aud'[k] = "none"
             /\ \A r \in DOMAIN recs' : recs'[r] = NoRec
             /\ recognitionRef' = None /\ audioRef' = "none"]_vars

\* exit was requested before the 2000ms had passed: the timer has fired and
\* found the flag set
C28_Witness ==
    /\ state = "DOOR_OPENING" /\ sessionData /\ isExitingRef /\ mounted
    /\ ~door.timer /\ door.pc = "idle" /\ navigated = "report"
    /\ turns = <<>> /\ \A k \in Callers : aud[k] = "none"

\* the continuation k is suspended at "await playAudio(...)"
Awaiting(k) ==
    IF k = "door" THEN door.pc = "play"
    ELSE IF k = "pnt" THEN pnt.pc = "play"
    ELSE rep.pc = "play"

\* C29: a call of playAudio is pending only while its request to /tts or
\* its audio element is outstanding (muted or exiting it returns at once,
\* without starting audio), and every pending call returns: when the
\* request fails or is not ok, when the audio ends or errors, and when exit
\* stops the playback; the code after the await is resumed, never a catch
\* block.
C29_PlayAudioResolves ==
    /\ [](\A k \in Callers : Awaiting(k) => aud[k] # "none")
    /\ [](door.pc = "play" => ~door.cMuted)
    /\ [](pnt.pc = "play" => ~pnt.cMuted /\ hist.last # "failure")
    /\ Awaiting("door") ~> ~Awaiting("door")
    /\ Awaiting("pnt") ~> ~Awaiting("pnt")
    /\ Awaiting("rep") ~> ~Awaiting("rep")

\* exit was requested while the greeting was being fetched or played: the
\* call has returned and the continuation was abandoned
C29_Witness ==
    /\ isExitingRef /\ state = "AI_SPEAKING" /\ currentAiText = GreetingText
    /\ door.pc = "done" /\ turns = <<>>
    /\ \A k \in Callers : aud[k] = "none"

\* C30: an object URL created by playAudio is unrevoked only while its audio
\* element is still to finish: when the playback has ended, failed, been
\* refused by play() or been stopped by exit and its last event delivered,
\* the URL has been revoked.
C30_UrlsReleased ==
    \A k \in Callers :
        audioUrl[k] = "created" => aud[k] \in {"starting", "playing", "stopped"}

\* the step is the 500ms timer armed by an error of object r
RestartFires(r) ==
    recs[r].restartPending /\ hist'.last = "restart" /\ ~recs'[r].restartPending

\* C31: when the 500ms timer armed by a no-speech or audio-capture error
\* fires, the capture object is started again exactly if the state is
\* still USER_LISTENING, no speech has been observed and exit has not been
\* requested.
C31_RestartPolicy ==
    [][\A r \in DOMAIN recs :
          RestartFires(r) =>
             (recs'[r].live <=>
                 (state = "USER_LISTENING" /\ ~speechStartedRef /\ ~isExitingRef))]_vars

\* C32: every step that starts a capture (startListening or the restart
\* after a recoverable error) arms the warning and the repeat timer for it;
\* the step that observes the first recognition result and every step that
\* stops a capture leave them cancelled; so while a capture is live in
\* USER_LISTENING with no speech observed and exit not requested its repeat
\* timer is pending.
C32_WatchdogsArmed ==
    [][/\ \A r \in DOMAIN recs :
             (recs'[r].live /\ ~recs[r].live) => r \in repeatT' /\ r \in noSpeechT'
       /\ (speechStartedRef' /\ ~speechStartedRef) => repeatT' = {} /\ noSpeechT' = {}
       /\ \A r \in DOMAIN recs :
             (recs[r].live /\ ~recs'[r].live) => r \notin repeatT' /\ r \notin noSpeechT'
       /\ (state' = "USER_LISTENING" /\ ~speechStartedRef' /\ ~isExitingRef') =>
             \A r \in DOMAIN recs : recs'[r].live => r \in repeatT']_vars

\* C33: the no-speech warning flag becomes true only in the step of the
\* warning timer, with no speech observed and exit not requested; it is
\* false whenever the speech-observed flag is true, after every step in
\* which startListening starts a capture session and after every step that
\* starts a repeat.
C33_WarningOnlyWhileSilent ==
    [][/\ (silenceWarning' /\ ~silenceWarning) =>
             WarnTimer /\ ~speechStartedRef /\ ~isExitingRef /\ ~speechStartedRef'
       /\ speechStartedRef' => ~silenceWarning'
       /\ \A r \in DOMAIN recs :
             (recs'[r].live /\ ~recs[r].live /\ hist'.last # "restart")
                => ~silenceWarning'
       /\ RepeatStarts => ~silenceWarning']_vars

\* nothing was said for 25 seconds: the warning is shown while the capture
\* goes on
C33_Witness ==
    /\ silenceWarning /\ ~speechStartedRef /\ ~isExitingRef
    /\ state = "USER_LISTENING" /\ CaptureLive(Cur)
    /\ noSpeechT = {} /\ repeatT # {}

\* the step is recognition.onresult of the live object r for the event ev
ResultOf(r, ev) == recs[r].live /\ Step(onresult(Cur, r, ev))
\* stop() has been requested for the capture of recognitionRef after speech
StopRequested ==
    /\ state = "USER_LISTENING" /\ ~isExitingRef
    /\ recognitionRef # None /\ recs[recognitionRef].endPending
    /\ speechStartedRef /\ transcriptRef # ""

\* C34: the 1.5s pause timer of a capture becomes pending only in the step
\* of a recognition result with final text, every such result leaves it
\* pending anew and a result without final text leaves none pending; when
\* it fires with speech observed, the snapshot non-empty and exit not
\* requested it stops that capture, whose end event is then due; and a
\* capture of recognitionRef so stopped in USER_LISTENING leads to THINKING
\* (or exit is requested first).
C34_PauseTimerEndsTurn ==
    /\ [][\A r \in DOMAIN recs :
             /\ (r \in silenceT' /\ r \notin silenceT) =>
                   \E ev \in ResultEvents : finalTranscript(ev) # "" /\ ResultOf(r, ev)
             /\ \A ev \in ResultEvents :
                   (ResultOf(r, ev) /\ ~isExitingRef) =>
                       (r \in silenceT' <=> finalTranscript(ev) # "")
             /\ (r \in silenceT /\ r \notin silenceT' /\ hist'.last = "pause") =>
                   /\ speechStartedRef /\ transcriptRef # "" /\ ~isExitingRef
                   /\ recs[r].live /\ ~recs'[r].live /\ recs'[r].endPending]_vars
    /\ \A r \in silenceT : speechStartedRef /\ transcriptRef # ""
    /\ StopRequested ~> (state = "THINKING" \/ isExitingRef)

\* the pause timer has fired after the answer "a" and stopped the capture
C34_Witness ==
    /\ hist.last = "pause" /\ StopRequested
    /\ transcriptRef = "a" /\ silenceT = {}

\* ------------------------------------------------- events of several results
\* event.results holding up to MaxResults results, final and interim mixed
WideWords == {"", "a", "b"}
WideResults == {Result(f, w) : f \in BOOLEAN, w \in WideWords}
WideEvents == UNION {[1..n -> WideResults] : n \in 1..MaxResults}
RecResultWide ==
    \E r \in Recs(Cur), ev \in WideEvents :
        recs[r].live /\ Step(onresult(Cur, r, ev))
NextWide == Next \/ RecResultWide
SpecWide == Init /\ [][NextWide]_vars

RECURSIVE TextOf(_)
TextOf(segs) ==
    IF segs = <<>> THEN "" ELSE Head(segs).transcript \o TextOf(Tail(segs))
IsFinalSeg(x) == x.isFinal
IsInterimSeg(x) == ~x.isFinal
FinalText(ev) == TextOf(SelectSeq(ev, IsFinalSeg))
InterimText(ev) == TextOf(SelectSeq(ev, IsInterimSeg))
Best(ev, prev) ==
    IF FinalText(ev) # "" THEN FinalText(ev)
    ELSE IF InterimText(ev) # "" THEN InterimText(ev) ELSE prev

\* C35: in every state a capture session can receive a result event in, the
\* step that handles the event leaves the transcript snapshot equal to the
\* final segments of the event joined in arrival order when they carry text,
\* otherwise to the interim text of the event, otherwise to its previous
\* value, and leaves the display transcript updated the same way.
C35_BestTranscript ==
    \A r \in DOMAIN recs : \A ev \in WideEvents :
        (recs[r].live /\ ~isExitingRef) =>
            /\ Normal(Render(Cur, onresult(Cur, r, ev))).transcriptRef
                  = Best(ev, transcriptRef)
            /\ Normal(Render(Cur, onresult(Cur, r, ev))).transcript
                  = Best(ev, transcript)
\* two final segments of one event have been joined in the snapshot
C35_Witness ==
    /\ transcriptRef = "ab"
    /\ transcript = "ab"
    /\ state = "USER_LISTENING"
    /\ \E r \in DOMAIN recs : recs[r].live

\* C36: isAudioPlaying turns true only in the step of an element's play event
\* and only while exit is not requested, so never in the step that sends the
\* /tts request; the steps of the ended event, the error event, a rejected
\* play() and an exit leave it false; whenever it is true the state is
\* AI_SPEAKING and exit is not requested.
C36_PlayingFlag ==
    /\ [][(~isAudioPlaying /\ isAudioPlaying')
             => (AudioOnPlay /\ ~isExitingRef /\ ~isExitingRef')]_vars
    /\ [][(\E k \in Callers : aud[k] # "tts" /\ aud'[k] = "tts")
             => (isAudioPlaying' = isAudioPlaying)]_vars
    /\ [][(AudioOnEnded \/ AudioOnError \/ AudioPlayRejected
              \/ ExitInterview \/ Unmount) => ~isAudioPlaying']_vars
    /\ [](isAudioPlaying => (state = "AI_SPEAKING" /\ ~isExitingRef))
\* an element is playing and the flag is shown
C36_Witness ==
    /\ isAudioPlaying
    /\ \E k \in Callers : aud[k] = "playing" /\ audioRef = k

\* C37: in every step that sends a request to /turn/next, the request carries
\* the phase, mainQuestionIndex, followupCount and repeatRequestCount the page
\* holds when the answer is submitted; its turnsSoFar is the turn history of
\* the page followed by one user turn, which is also the history the page
\* holds afterwards; that turn's userTranscript is the request's
\* userTranscript and its aiText is the request's aiPromptedText.
C37_RequestContract ==
    [][(pnt.pc # "fetch" /\ pnt'.pc = "fetch") =>
          /\ pnt'.phase = phase /\ phase' = phase
          /\ pnt'.mainQuestionIndex = mainQuestionIndex
          /\ mainQuestionIndex' = mainQuestionIndex
          /\ pnt'.followupCount = followupCount
          /\ followupCount' = followupCount
          /\ pnt'.repeatRequestCount = repeatRequestCount
          /\ repeatRequestCount' = repeatRequestCount
          /\ pnt'.turnsSoFar =
                Append(turns, Turn("user", pnt'.aiPromptedText, pnt'.userTranscript))
          /\ pnt'.turnsSoFar = turns']_vars
\* a request is in flight whose history has the greeting before the answer
C37_Witness ==
    /\ pnt.pc = "fetch"
    /\ Len(pnt.turnsSoFar) >= 2
    /\ pnt.turnsSoFar[Len(pnt.turnsSoFar)].userTranscript = "a"
    /\ pnt.turnsSoFar = turns

\* the closures a startListening of the page can have been created with
StartClosures ==
    {[state |-> st, aiText |-> t, muted |-> m] :
        st \in {"DOOR_OPENING", "USER_LISTENING"},
        t \in {"", currentAiText}, m \in BOOLEAN}

\* C38: in every state with exit requested or speech recognition unsupported
\* a call of startListening changes nothing: no recognition object, no timer,
\* and speechStartedRef, transcriptRef, state and turns as they were.  So no
\* step taken in such a state starts a capture or arms a watchdog timer, and
\* a page without speech recognition never has a capture, a pending timer,
\* speech observed or a transcript snapshot.
C38_StartIsNoOp ==
    /\ []((isExitingRef \/ ~supported) =>
             \A c \in StartClosures : startListening(Cur, c) = Cur)
    /\ [][(isExitingRef \/ ~supported) =>
             /\ \A r \in DOMAIN recs : recs'[r].live => recs[r].live
             /\ noSpeechT' \subseteq noSpeechT
             /\ repeatT' \subseteq repeatT
             /\ silenceT' \subseteq silenceT]_vars
    /\ [](~supported =>
             /\ \A r \in DOMAIN recs : recs[r] = NoRec
             /\ recognitionRef = None
             /\ noSpeechT = {} /\ repeatT = {} /\ silenceT = {}
             /\ ~speechStartedRef /\ transcriptRef = "")
\* the greeting has been played on a page without speech recognition: the
\* continuation called startListening and the page listens with no capture
C38_Witness ==
    /\ ~supported
    /\ door.pc = "done"
    /\ state = "USER_LISTENING"
    /\ turns = <<Turn("ai", GreetingText, "")>>
    /\ \A r \in DOMAIN recs : recs[r] = NoRec

\* the turns appended since the latest startListening created a capture session
IsUserTurn(t) == t.type = "user"
TurnsSinceStart == SubSeq(turns, Len(hist.turnsAtStart) + 1, Len(turns))

\* C39: since the latest capture session was created at most one user turn
\* has been appended; processNextTurn is never called while an earlier call
\* is still under way; and a step that issues a decision request finds the
\* turn history as it was when the session was created, so it is the first
\* of the session.  This holds when the Stop Answer button and the end event
\* of the capture it stops both occur, and when the pause timer has stopped
\* the capture before the button is pressed.
C39_OneSubmissionPerSession ==
    /\ [](/\ Len(turns) >= Len(hist.turnsAtStart)
          /\ SubSeq(turns, 1, Len(hist.turnsAtStart)) = hist.turnsAtStart
          /\ Len(SelectSeq(TurnsSinceStart, IsUserTurn)) <= 1)
    /\ [](~hist.overflow)
    /\ [][(pnt.pc # "fetch" /\ pnt'.pc = "fetch") =>
             /\ turns = hist.turnsAtStart
             /\ hist'.nSubmits = hist.nSubmits + 1
             /\ Len(turns') = Len(turns) + 1]_vars
\* the Stop Answer button has submitted the answer and the end event of the
\* capture it stopped is still to be delivered
C39_Witness ==
    /\ state = "THINKING"
    /\ pnt.pc = "fetch"
    /\ Len(SelectSeq(TurnsSinceStart, IsUserTurn)) = 1
    /\ \E r \in DOMAIN recs : recs[r].endPending /\ ~recs[r].live

\* a capture is live, or its restart or its end event is due, or a restart of
\* listening is requested, or a continuation of the door-opening sequence, of
\* processNextTurn or of repeatCurrentQuestion is under way
ListeningCovered ==
    \/ \E r \in DOMAIN recs :
          recs[r].live \/ recs[r].restartPending \/ recs[r].endPending
    \/ needsRestartListening
    \/ pnt.pc # "idle" \/ rep.pc # "idle" \/ door.pc # "done"

\* C40: whenever the state is USER_LISTENING and exit is not requested, a
\* capture session is live, or a capture start or restart is pending, or a
\* transition out of USER_LISTENING is under way.
C40_NeverDeaf ==
    (state = "USER_LISTENING" /\ ~isExitingRef) => ListeningCovered

====
